---------------------------- MODULE Spec2Model ----------------------------
(***************************************************************************)
(* A model of src/app.py: the upload, rating and arena handlers of the     *)
(* music-rating web application and the three CSV stores they append to.   *)
(*                                                                         *)
(* Text is modelled as a sequence of one-character strings, so that the    *)
(* conversions of the code (str.strip, str.lower, int(), Path.stem,        *)
(* secure_filename) are computed character by character.  A form field     *)
(* that is absent and one that is empty are both the empty sequence: every *)
(* use of a form field in the handlers is a truthiness test or a default   *)
(* of "", which do not tell None from "".                                  *)
(*                                                                         *)
(* The timestamp and the client address of a stored row are left out:      *)
(* no handler reads them back.                                             *)
(***************************************************************************)
EXTENDS Integers, Sequences, FiniteSets, TLC

\* The field names of the records of the model, in the one order in which
\* every record of the model lists its fields.
FieldOrder ==
    [op |-> 1, form |-> 2, args |-> 3, conv |-> 4, store |-> 5,
     uploads |-> 6, metadata |-> 7, resp |-> 8, ok |-> 9, val |-> 10,
     status |-> 11, location |-> 12, page |-> 13, password |-> 14,
     batch_submit |-> 15, email |-> 16, user_email |-> 17, has_pair |-> 18,
     sort |-> 19, key |-> 20, display_label |-> 21, tracks |-> 22,
     filename |-> 23, filenames |-> 24, model_name |-> 25, composer |-> 26,
     piece_name |-> 27, score_filename |-> 28, score |-> 29, scores |-> 30,
     remark |-> 31, remarks |-> 32, piece |-> 33, model |-> 34,
     error |-> 35, piece_key |-> 36, piece_label |-> 37, track_a |-> 38,
     track_b |-> 39, model_a |-> 40, model_b |-> 41, winner |-> 42,
     winner_label |-> 43, winner_track |-> 44, winner_model |-> 45,
     feedback |-> 46, next_action |-> 47, arena_status |-> 48,
     message |-> 49, error_message |-> 50, total_tracks |-> 51,
     submitted_count |-> 52, runs |-> 53, ratings |-> 54, matches |-> 55,
     exists |-> 56, headers |-> 57, pc |-> 58, index |-> 59, new |-> 60,
     seen |-> 61]

VARIABLES
    uploads,    \* names of the files in UPLOAD_FOLDER
    metadata,   \* data rows of metadata.csv, in file order
    ratings,    \* data rows of ratings.csv, in file order
    matches,    \* data rows of model_arena_matches.csv, in file order
    req,        \* the request handled last
    resp,       \* the response to it
    csv_files,  \* of each CSV file: whether it exists, and where its header rows sit
    pending     \* the rating POSTs that are being handled concurrently

vars == <<uploads, metadata, ratings, matches, req, resp, csv_files, pending>>

-----------------------------------------------------------------------------
(* Bounds of the model. *)

MaxBatch == 2       \* filenames in one batch rating POST
MaxRatings == 2     \* rows of ratings.csv when only ratings are posted
MaxMeta == 4        \* rows of metadata.csv when only tracks are uploaded
MaxRows == 3        \* rows of the three stores together, every handler running
MaxMatches == 2     \* rows of model_arena_matches.csv when only matches are posted
MaxUploads == 2     \* rows of metadata.csv when the upload handler runs alone

\* The rows the three stores may still take together.
RowsFree == MaxRows - (Len(metadata) + Len(ratings) + Len(matches))

-----------------------------------------------------------------------------
(* The CSV files.  The data rows of a file are the value of its store      *)
(* variable; its header rows are kept apart, each as the number of data    *)
(* rows that precede it in the file.                                       *)

\* A file that was never opened.
NoFile == [exists |-> FALSE, headers |-> <<>>]

\* A file that was written by one request after another.
WrittenFile == [exists |-> TRUE, headers |-> <<0>>]

NoFiles == [metadata |-> NoFile, ratings |-> NoFile, matches |-> NoFile]

\* The file after the calls of one handler that took its data rows from
\* before to after: the first call finds the file missing and writes the
\* header row in front of its data row.
Saved(file, before, after) ==
    IF after = before \/ file.exists THEN file
    ELSE [exists |-> TRUE, headers |-> <<Len(before)>>]

-----------------------------------------------------------------------------
(* Text helpers: the str methods the handlers use. *)

\* Code points of the characters of the model's alphabet (for sorting).
Ord(c) ==
    CASE c = " " -> 32  [] c = "+" -> 43  [] c = "-" -> 45  [] c = "." -> 46
      [] c = "/" -> 47
      [] c = "0" -> 48  [] c = "1" -> 49  [] c = "2" -> 50  [] c = "3" -> 51
      [] c = "4" -> 52  [] c = "5" -> 53  [] c = "6" -> 54  [] c = "7" -> 55
      [] c = "8" -> 56  [] c = "9" -> 57
      [] c = ":" -> 58
      [] c = "A" -> 65  [] c = "B" -> 66  [] c = "C" -> 67  [] c = "H" -> 72
      [] c = "M" -> 77  [] c = "S" -> 83  [] c = "Z" -> 90
      [] c = "_" -> 95
      [] c = "a" -> 97  [] c = "b" -> 98  [] c = "c" -> 99  [] c = "d" -> 100
      [] c = "e" -> 101 [] c = "f" -> 102 [] c = "g" -> 103 [] c = "h" -> 104
      [] c = "i" -> 105 [] c = "l" -> 108 [] c = "m" -> 109 [] c = "n" -> 110
      [] c = "o" -> 111 [] c = "p" -> 112 [] c = "r" -> 114 [] c = "s" -> 115
      [] c = "t" -> 116 [] c = "x" -> 120 [] c = "y" -> 121 [] c = "z" -> 122
      [] c = "|" -> 124
      [] OTHER -> 63

\* str.lower() of one character.
LowerChar(c) ==
    CASE c = "A" -> "a" [] c = "B" -> "b" [] c = "C" -> "c" [] c = "H" -> "h"
      [] c = "M" -> "m" [] c = "S" -> "s" [] c = "Z" -> "z"
      [] OTHER -> c

\* str.lower()
Lower(s) == [i \in 1..Len(s) |-> LowerChar(s[i])]

IsSpace(c) == c = " "

RECURSIVE LStrip(_)
LStrip(s) == IF s # <<>> /\ IsSpace(Head(s)) THEN LStrip(Tail(s)) ELSE s

RECURSIVE RStrip(_)
RStrip(s) ==
    IF s # <<>> /\ IsSpace(s[Len(s)]) THEN RStrip(SubSeq(s, 1, Len(s) - 1)) ELSE s

\* str.strip()
Strip(s) == RStrip(LStrip(s))

\* The characters of a text joined into one string (for keys and labels).
RECURSIVE Str(_)
Str(s) == IF s = <<>> THEN "" ELSE Head(s) \o Str(Tail(s))

\* s < t for str: lexicographic by code point.
RECURSIVE StrLess(_, _)
StrLess(s, t) ==
    IF t = <<>> THEN FALSE
    ELSE IF s = <<>> THEN TRUE
    ELSE IF Ord(Head(s)) # Ord(Head(t)) THEN Ord(Head(s)) < Ord(Head(t))
    ELSE StrLess(Tail(s), Tail(t))

\* form.get(key, "") of a per-filename field (score_<filename>, remark_<filename>).
FormGet(fields, key) == IF key \in DOMAIN fields THEN fields[key] ELSE <<>>

-----------------------------------------------------------------------------
(* int(score): surrounding whitespace is dropped, one sign is allowed, the  *)
(* rest must be decimal digits, with single underscores allowed between     *)
(* digits; anything else raises ValueError.                                 *)

Digits == {"0", "1", "2", "3", "4", "5", "6", "7", "8", "9"}

DigitVal(c) == Ord(c) - 48

RECURSIVE DigitsVal(_, _)
DigitsVal(s, acc) ==
    IF s = <<>> THEN acc ELSE DigitsVal(Tail(s), acc * 10 + DigitVal(Head(s)))

ParseInt(s) ==
    LET t == Strip(s)
        signed == t # <<>> /\ Head(t) \in {"+", "-"}
        body == IF signed THEN Tail(t) ELSE t
        mag == DigitsVal(SelectSeq(body, LAMBDA c : c # "_"), 0)
    IN  IF /\ body # <<>>
           /\ \A i \in 1..Len(body) :
                  \/ body[i] \in Digits
                  \/ /\ body[i] = "_" /\ 1 < i /\ i < Len(body)
                     /\ body[i - 1] \in Digits /\ body[i + 1] \in Digits
        THEN [ok |-> TRUE, val |-> IF signed /\ Head(t) = "-" THEN 0 - mag ELSE mag]
        ELSE [ok |-> FALSE, val |-> 0]

\* Variant: 0 passes the range assertion.
ScoreInRange_Mut(n) == 0 <= n /\ n <= 10

\* assert 1 <= score_int <= 10
ScoreInRange(n) == 1 <= n /\ n <= 10

\* Variant: any integer is accepted.
ScoreAccepted_NoRange(score) == ParseInt(score).ok

\* The try block of both modes: int(score) and the range assertion succeed.
ScoreAccepted(score) == ParseInt(score).ok /\ ScoreInRange(ParseInt(score).val)

-----------------------------------------------------------------------------
(* Rating store. *)

\* Variant: the new row is put in front of the rows already stored.
save_rating_Front(store, filename, score, email, remark) ==
    <<[email |-> email, filename |-> filename,
       score |-> score, remark |-> remark]>> \o store

save_rating(store, filename, score, email, remark) ==
    Append(store, [email |-> email, filename |-> filename,
                   score |-> score, remark |-> remark])

\* get_user_rated_tracks: the filenames of the rows whose stripped email
\* equals the query email, both lowered.
get_user_rated_tracks(email) ==
    { ratings[i].filename : i \in
        { j \in 1..Len(ratings) : Lower(Strip(ratings[j].email)) = Lower(email) } }


-----------------------------------------------------------------------------
(* Rating handler, POST branch. *)

Abort400 == [status |-> 400]

\* The loop over the listed filenames: a row is saved for each filename whose
\* score field is non-empty and passes the try block; any other is skipped.
\* Variant: the loop ends at the first entry that is not stored.
RECURSIVE BatchLoop_Abort(_, _, _, _)
BatchLoop_Abort(store, submitted_count, form, i) ==
    IF i > Len(form.filenames)
    THEN [store |-> store, submitted_count |-> submitted_count]
    ELSE LET filename == form.filenames[i]
             score == FormGet(form.scores, filename)
             remark == Strip(FormGet(form.remarks, filename))
         IN  IF score # <<>> /\ ScoreAccepted(score)
             THEN BatchLoop_Abort(save_rating(store, filename, ParseInt(score).val,
                                              form.email, remark),
                                  submitted_count + 1, form, i + 1)
             ELSE [store |-> store, submitted_count |-> submitted_count]

RECURSIVE BatchLoop(_, _, _, _)
BatchLoop(store, submitted_count, form, i) ==
    IF i > Len(form.filenames)
    THEN [store |-> store, submitted_count |-> submitted_count]
    ELSE LET filename == form.filenames[i]
             score == FormGet(form.scores, filename)
             remark == Strip(FormGet(form.remarks, filename))
         IN  IF score # <<>> /\ ScoreAccepted(score)
             THEN BatchLoop(save_rating(store, filename, ParseInt(score).val,
                                        form.email, remark),
                            submitted_count + 1, form, i + 1)
             ELSE BatchLoop(store, submitted_count, form, i + 1)

\* Variant: the email is never found missing.
EmailMissing_Never(form) == FALSE

\* "if not email"
EmailMissing(form) == form.email = <<>>

\* Variant: a batch is never found empty-handed.
NoneSubmitted_Never(submitted_count) == FALSE

\* "if submitted_count == 0"
NoneSubmitted(submitted_count) == submitted_count = 0

\* The result of rate() on a POST: the store and the response.
RatePostResult(form) ==
    IF EmailMissing(form) THEN [store |-> ratings, resp |-> Abort400]
    ELSE IF form.batch_submit # <<>>
    THEN IF form.filenames = <<>> THEN [store |-> ratings, resp |-> Abort400]
         ELSE LET done == BatchLoop(ratings, 0, form, 1)
              IN  IF NoneSubmitted(done.submitted_count)
                  THEN [store |-> done.store,
                        resp |-> [status |-> 302, location |-> "rate",
                                  email |-> form.email, error |-> "no_ratings"]]
                  ELSE [store |-> done.store,
                        resp |-> [status |-> 200, page |-> "thanks",
                                  user_email |-> form.email,
                                  submitted_count |-> done.submitted_count]]
    ELSE IF form.filename = <<>> \/ form.score = <<>>
         THEN [store |-> ratings, resp |-> Abort400]
         ELSE IF ~ScoreAccepted(form.score)
         THEN [store |-> ratings, resp |-> Abort400]
         ELSE [store |-> save_rating(ratings, form.filename, ParseInt(form.score).val,
                                     form.email, Strip(form.remark)),
               resp |-> [status |-> 200, page |-> "thanks",
                         user_email |-> form.email]]

RatePost(form) ==
    /\ req' = [op |-> "rate_post", form |-> form]
    /\ ratings' = RatePostResult(form).store
    /\ resp' = RatePostResult(form).resp
    /\ csv_files' = [csv_files EXCEPT !.ratings = Saved(@, ratings, RatePostResult(form).store)]
    /\ UNCHANGED <<uploads, metadata, matches, pending>>

\* A batch form: batch_submit=true, the listed filenames and their
\* score_<filename> and remark_<filename> fields.
BatchForm(email, filenames, scores, remarks) ==
    [batch_submit |-> <<"t", "r", "u", "e">>, email |-> email,
     filename |-> <<>>, filenames |-> filenames,
     score |-> <<>>, scores |-> scores, remark |-> <<>>, remarks |-> remarks]

\* A legacy single form: filename, score, remark.
SingleForm(email, filename, score, remark) ==
    [batch_submit |-> <<>>, email |-> email,
     filename |-> filename, filenames |-> <<>>,
     score |-> score, scores |-> <<>>, remark |-> remark, remarks |-> <<>>]

\* The sequences over S of length at most n.
SeqUpTo(S, n) == UNION { [1..k -> S] : k \in 0..n }

Range(s) == { s[i] : i \in 1..Len(s) }

\* A batch POST of at most room filenames.
RateBatchPost(Emails, Names, Scores, Remarks, room) ==
    \E email \in Emails, filenames \in SeqUpTo(Names, MaxBatch) :
        /\ Len(filenames) <= room
        /\ \E scores \in [Range(filenames) -> Scores],
              remarks \in [Range(filenames) -> Remarks] :
               RatePost(BatchForm(email, filenames, scores, remarks))

RateSinglePost(Emails, Names, Scores, Remarks) ==
    \E email \in Emails, filename \in Names \cup {<<>>},
       score \in Scores, remark \in Remarks :
        RatePost(SingleForm(email, filename, score, remark))

-----------------------------------------------------------------------------
(* Metadata store. *)

\* Variant: the composer and the piece name change places.
save_metadata_Swapped(store, filename, model_name, composer, piece_name, score_filename) ==
    Append(store, [filename |-> filename, model_name |-> model_name,
                   composer |-> piece_name, piece_name |-> composer,
                   score_filename |-> score_filename])

save_metadata(store, filename, model_name, composer, piece_name, score_filename) ==
    Append(store, [filename |-> filename, model_name |-> model_name,
                   composer |-> composer, piece_name |-> piece_name,
                   score_filename |-> score_filename])

\* The {} that get_file_metadata returns for a file without a row: every
\* metadata.get(...) on it gives the default.
NoMetadata ==
    [filename |-> <<>>, model_name |-> <<>>, composer |-> <<>>,
     piece_name |-> <<>>, score_filename |-> <<>>]

\* get_file_metadata: the first row of the store with that filename.
FirstMatch_Last(store, filename) ==
    LET hits == { i \in 1..Len(store) : store[i].filename = filename }
    IN  IF hits = {} THEN NoMetadata
        ELSE store[CHOOSE i \in hits : \A j \in hits : j <= i]
FirstMatch(store, filename) ==
    LET hits == { i \in 1..Len(store) : store[i].filename = filename }
    IN  IF hits = {} THEN NoMetadata
        ELSE store[CHOOSE i \in hits : \A j \in hits : i <= j]

get_file_metadata(filename) == FirstMatch(metadata, filename)

-----------------------------------------------------------------------------
(* File names. *)

DotOgg == <<".", "o", "g", "g">>
DotMusicXml == <<".", "m", "u", "s", "i", "c", "x", "m", "l">>

EndsWith(s, suffix) ==
    Len(s) >= Len(suffix) /\ SubSeq(s, Len(s) - Len(suffix) + 1, Len(s)) = suffix

\* The position of the last "." of a name, 0 when it has none.
LastDot(name) ==
    LET dots == { i \in 1..Len(name) : name[i] = "." }
    IN  IF dots = {} THEN 0 ELSE CHOOSE i \in dots : \A j \in dots : j <= i

\* Path(name).stem: the name without its last suffix; a name that starts or
\* ends with its only dot has no suffix.
Stem(name) ==
    IF 1 < LastDot(name) /\ LastDot(name) < Len(name)
    THEN SubSeq(name, 1, LastDot(name) - 1)
    ELSE name

\* sorted(...) of a set of names.
RECURSIVE SortSet(_)
SortSet(S) ==
    IF S = {} THEN <<>>
    ELSE LET m == CHOOSE x \in S : \A y \in S \ {x} : StrLess(x, y)
         IN  <<m>> \o SortSet(S \ {m})

\* sorted(UPLOAD_FOLDER.glob("*.ogg")), as names.
Tracks(directory) == SortSet({ f \in directory : EndsWith(f, DotOgg) })

OggTracks == Tracks(uploads)

-----------------------------------------------------------------------------
(* Piece grouping. *)

EmDash == "<U+2014>"    \* the character U+2014 of the display label

\* Variant: the key of a track without composer and piece name leaves out
\* the stem.
FileKey_Shared(filename) == "file::"

\* f"file::{stem}"
FileKey(filename) == "file::" \o Str(Stem(filename))

\* The four cases of _derive_piece_identity, for the stripped piece name
\* and composer.
PieceIdentity(filename, piece_name, composer) ==
    IF piece_name # <<>> /\ composer # <<>>
    THEN [key |-> "composer::" \o Str(composer) \o "|piece::" \o Str(piece_name),
          display_label |-> Str(composer) \o " " \o EmDash \o " " \o Str(piece_name),
          composer |-> composer, piece_name |-> piece_name]
    ELSE IF piece_name # <<>>
    THEN [key |-> "piece::" \o Str(piece_name),
          display_label |-> Str(piece_name),
          composer |-> composer, piece_name |-> piece_name]
    ELSE IF composer # <<>>
    THEN [key |-> "composer_only::" \o Str(composer),
          display_label |-> Str(composer),
          composer |-> composer, piece_name |-> piece_name]
    ELSE [key |-> FileKey(filename),
          display_label |-> Str(Stem(filename)),
          composer |-> composer, piece_name |-> Stem(filename)]

\* Variant: the piece name is the metadata's piece_name alone.
derive_piece_identity_NoFallback(filename, md) ==
    PieceIdentity(filename, Strip(md.piece_name), Strip(md.composer))

\* _derive_piece_identity(filename, metadata): the piece name is the
\* metadata's piece_name or, when that is empty, its score_filename.
derive_piece_identity(filename, md) ==
    PieceIdentity(filename,
                  Strip(IF md.piece_name # <<>> THEN md.piece_name
                        ELSE md.score_filename),
                  Strip(md.composer))

\* dict[key] = value
DictPut(d, key, value) ==
    [k \in DOMAIN d \cup {key} |-> IF k = key THEN value ELSE d[k]]

\* groups.setdefault(key, {...}) for a track of identity id.
GroupOf(groups, id) ==
    IF id.key \in DOMAIN groups THEN groups[id.key]
    ELSE [display_label |-> id.display_label, tracks |-> <<>>,
          composer |-> id.composer, piece_name |-> id.piece_name]

\* The group after the track's entry is appended and the label, composer
\* and piece name are filled in from the track.
GroupWith(group, entry, id) ==
    [display_label |->
         IF id.composer # <<>> /\ id.piece_name # <<>>
         THEN Str(id.composer) \o " " \o EmDash \o " " \o Str(id.piece_name)
         ELSE IF id.piece_name # <<>> /\ group.display_label = ""
         THEN Str(id.piece_name)
         ELSE group.display_label,
     tracks |-> Append(group.tracks, entry),
     composer |-> IF id.composer # <<>> /\ group.composer = <<>>
                  THEN id.composer ELSE group.composer,
     piece_name |-> IF id.piece_name # <<>> /\ group.piece_name = <<>>
                    THEN id.piece_name ELSE group.piece_name]

GroupAdd(groups, filename, md, id) ==
    DictPut(groups, id.key,
            GroupWith(GroupOf(groups, id),
                      [filename |-> filename, model_name |-> Strip(md.model_name),
                       composer |-> id.composer, piece_name |-> id.piece_name],
                      id))

\* One pass of the loop of collect_piece_groups over a track.
\* for the rows of metadata.csv it reads.
GroupStep(store, groups, filename) ==
    GroupAdd(groups, filename, FirstMatch(store, filename),
             derive_piece_identity(filename, FirstMatch(store, filename)))

RECURSIVE GroupLoop(_, _, _)
GroupLoop(store, groups, files) ==
    IF files = <<>> THEN groups
    ELSE GroupLoop(store, GroupStep(store, groups, Head(files)), Tail(files))

\* Variant: a group of one track is kept.
Retained_One(group) == Len(group.tracks) >= 1

\* len(data["tracks"]) >= 2
Retained(group) == Len(group.tracks) >= 2

\* Every bucket, before the groups of fewer than two tracks are dropped.
Buckets(directory, store) == GroupLoop(store, <<>>, Tracks(directory))

AllBuckets == Buckets(uploads, metadata)

\* The buckets that are returned.
RetainedGroups(buckets) ==
    [key \in { k \in DOMAIN buckets : Retained(buckets[k]) } |-> buckets[key]]

collect_piece_groups == RetainedGroups(AllBuckets)

-----------------------------------------------------------------------------
(* Upload handler. *)

PASSWORD == "changeme"

ALLOWED_EXTENSIONS == {<<"m", "s", "c", "z">>}

\* Variant: any name with a dot passes.
allowed_file_AnyExtension(filename) == LastDot(filename) > 0

\* allowed_file: the name has a dot and what follows its last dot, lowered,
\* is an allowed extension.
allowed_file(filename) ==
    /\ LastDot(filename) > 0
    /\ Lower(SubSeq(filename, LastDot(filename) + 1, Len(filename)))
           \in ALLOWED_EXTENSIONS

\* "_".join(s.split()): the runs of non-space characters joined by "_".
RECURSIVE JoinRuns(_)
JoinRuns(s) ==
    LET t == LStrip(s)
    IN  IF t = <<>> THEN <<>>
        ELSE IF Len(t) > 1 /\ IsSpace(t[2])
        THEN IF LStrip(Tail(t)) = <<>> THEN <<Head(t)>>
             ELSE <<Head(t), "_">> \o JoinRuns(Tail(t))
        ELSE <<Head(t)>> \o JoinRuns(Tail(t))

\* [A-Za-z0-9_.-]
IsSafeChar(c) ==
    \/ Ord(c) \in 48..57 \/ Ord(c) \in 65..90 \/ Ord(c) \in 97..122
    \/ c \in {"_", ".", "-"}

RECURSIVE StripDots(_)
StripDots(s) ==
    IF s # <<>> /\ Head(s) \in {".", "_"} THEN StripDots(Tail(s))
    ELSE IF s # <<>> /\ s[Len(s)] \in {".", "_"}
    THEN StripDots(SubSeq(s, 1, Len(s) - 1))
    ELSE s

\* werkzeug's secure_filename: path separators become spaces, runs of
\* whitespace become "_", characters outside [A-Za-z0-9_.-] are dropped and
\* leading and trailing dots and underscores are stripped.
secure_filename(filename) ==
    LET spaced == [i \in 1..Len(filename) |->
                      IF filename[i] = "/" THEN " " ELSE filename[i]]
        joined == JoinRuns(spaced)
    IN  StripDots(SelectSeq(joined, IsSafeChar))

\* What the two converter runs do: both succeed; the first fails (nothing
\* is written); the first succeeds and the second fails.
ConvOutcomes == {"ok", "fail_ogg", "fail_xml"}

UploadMessage(text) == [status |-> 200, page |-> "upload", message |-> text]

\* Variant: every password passes.
PasswordMismatch_Never(form) == FALSE

\* request.form.get("password") != PASSWORD
PasswordMismatch(form) == form.password # PASSWORD

\* Variant: only a failure of the first converter run counts.
ConversionFailed_OggOnly(conv) == conv = "fail_ogg"

\* The try block raised: one of the two converter runs failed.
ConversionFailed(conv) == conv # "ok"

\* The converter runs of the try block, by the suffix of their output: the
\* second run is reached only when the first one succeeded.
ConverterRuns(conv) ==
    IF conv = "fail_ogg" THEN <<"ogg">> ELSE <<"ogg", "musicxml">>

\* The files in the uploads directory after file.save and the converter
\* runs: a run that fails writes nothing.
Written(filename, conv) ==
    {filename}
    \cup (IF conv # "fail_ogg" THEN {Stem(filename) \o DotOgg} ELSE {})
    \cup (IF conv = "ok" THEN {Stem(filename) \o DotMusicXml} ELSE {})

\* The result of upload() on a POST: the uploads directory, the metadata
\* store, the response and the converter runs.
UploadResult(form, conv) ==
    IF PasswordMismatch(form)
    THEN [uploads |-> uploads, metadata |-> metadata,
          resp |-> UploadMessage("Incorrect password."), runs |-> <<>>]
    ELSE IF form.filename = <<>>
    THEN [uploads |-> uploads, metadata |-> metadata,
          resp |-> UploadMessage("No score selected."), runs |-> <<>>]
    ELSE IF ~allowed_file(form.filename)
    THEN [uploads |-> uploads, metadata |-> metadata,
          resp |-> UploadMessage("File type not allowed."), runs |-> <<>>]
    ELSE LET filename == secure_filename(form.filename)
             ogg == Stem(filename) \o DotOgg
             model_name == Strip(form.model_name)
             composer == Strip(form.composer)
             piece_name == Strip(form.piece_name)
         IN  IF ConversionFailed(conv)
             THEN [uploads |-> uploads \cup Written(filename, conv),
                   metadata |-> metadata,
                   resp |-> UploadMessage("Conversion failed"),
                   runs |-> ConverterRuns(conv)]
             ELSE [uploads |-> uploads \cup Written(filename, conv),
                   metadata |->
                       IF model_name # <<>> \/ composer # <<>> \/ piece_name # <<>>
                       THEN save_metadata(metadata, ogg, model_name, composer,
                                          piece_name, <<>>)
                       ELSE metadata,
                   resp |-> UploadMessage("Uploaded"),
                   runs |-> ConverterRuns(conv)]

Upload(form, conv) ==
    /\ req' = [op |-> "upload", form |-> form, conv |-> conv,
               runs |-> UploadResult(form, conv).runs]
    /\ uploads' = UploadResult(form, conv).uploads
    /\ metadata' = UploadResult(form, conv).metadata
    /\ resp' = UploadResult(form, conv).resp
    /\ csv_files' = [csv_files EXCEPT
                     !.metadata = Saved(@, metadata, UploadResult(form, conv).metadata)]
    /\ UNCHANGED <<ratings, matches, pending>>

UploadPost(Passwords, Files, Models, Composers, Pieces) ==
    \E password \in Passwords, filename \in Files, model_name \in Models,
       composer \in Composers, piece_name \in Pieces, conv \in ConvOutcomes :
        Upload([password |-> password, filename |-> filename,
                model_name |-> model_name, composer |-> composer,
                piece_name |-> piece_name], conv)

-----------------------------------------------------------------------------
(* Rating handler, GET branch. *)

\* list.sort(key=...): a stable insertion of x behind every element whose
\* key is not greater.
RECURSIVE InsertByKey(_, _, _)
InsertByKey(x, sorted, key) ==
    IF sorted = <<>> THEN <<x>>
    ELSE IF StrLess(key[x], key[Head(sorted)]) THEN <<x>> \o sorted
    ELSE <<Head(sorted)>> \o InsertByKey(x, Tail(sorted), key)

RECURSIVE SortByKey(_, _, _)
SortByKey(sorted, rest, key) ==
    IF rest = <<>> THEN sorted
    ELSE SortByKey(InsertByKey(Head(rest), sorted, key), Tail(rest), key)

\* The tracks offered to user_email: all tracks without the rated ones.
UnratedTracks(user_email) ==
    IF user_email # <<>>
    THEN SelectSeq(OggTracks, LAMBDA t : t \notin get_user_rated_tracks(user_email))
    ELSE <<>>

\* The track list of the rating page for the query arguments.
RateTracks(args) ==
    LET tracks == UnratedTracks(args.email)
        md == [t \in Range(tracks) |-> get_file_metadata(t)]
        Match(t) ==
            /\ args.composer = <<>> \/ md[t].composer = args.composer
            /\ args.piece = <<>> \/ md[t].piece_name = args.piece
            /\ args.model = <<>> \/ md[t].model_name = args.model
        filtered ==
            IF args.composer # <<>> \/ args.piece # <<>> \/ args.model # <<>>
            THEN SelectSeq(tracks, Match) ELSE tracks
        key == [t \in Range(tracks) |->
                   IF args.sort = "composer" THEN md[t].composer
                   ELSE IF args.sort = "piece" THEN md[t].piece_name
                   ELSE IF args.sort = "model" THEN md[t].model_name
                   ELSE t]
    IN  SortByKey(<<>>, filtered, key)

RateGet(args) ==
    /\ req' = [op |-> "rate_get", args |-> args]
    /\ resp' = [status |-> 200, page |-> "rate", user_email |-> args.email,
                tracks |-> RateTracks(args),
                error_message |-> IF args.error = "no_ratings"
                                  THEN "Please rate at least one track before submitting."
                                  ELSE "",
                total_tracks |-> Len(OggTracks)]
    /\ UNCHANGED <<uploads, metadata, ratings, matches, csv_files, pending>>

RatePage(Emails, Sorts, Composers, Pieces, Models, Errors) ==
    \E email \in Emails, sort \in Sorts, composer \in Composers,
       piece \in Pieces, model \in Models, error \in Errors :
        RateGet([email |-> email, sort |-> sort, composer |-> composer,
                 piece |-> piece, model |-> model, error |-> error])

-----------------------------------------------------------------------------
(* Arena handler. *)

save_model_arena_match(store, email, piece_key, piece_label, track_a, track_b, model_a, model_b, chosen_label, chosen_track, chosen_model, feedback) ==
    Append(store, [email |-> email, piece_key |-> piece_key,
                   piece_label |-> piece_label,
                   track_a |-> track_a, track_b |-> track_b,
                   model_a |-> model_a, model_b |-> model_b,
                   winner_label |-> chosen_label, winner_track |-> chosen_track,
                   winner_model |-> chosen_model, feedback |-> feedback])

\* Variant: only the two tracks are required.
ArenaFormRejected_TracksOnly(form) ==
    form.track_a = <<>> \/ form.track_b = <<>>

\* if winner not in {"A", "B"} or not track_a or not track_b
ArenaFormRejected(form) ==
    \/ form.winner \notin {<<"A">>, <<"B">>}
    \/ form.track_a = <<>> \/ form.track_b = <<>>

\* Variant: the first candidate is always the chosen one.
ChosenOf_First(winner, of_a, of_b) == of_a

\* x_a if winner == "A" else x_b
ChosenOf(winner, of_a, of_b) == IF winner = <<"A">> THEN of_a ELSE of_b

\* Variant: the next action is not looked at.
RedirectsToSame_AnyAction(form) == form.piece_key # ""

\* if next_action == "same" and piece_key
RedirectsToSame(form) == form.next_action = "same" /\ form.piece_key # ""

\* The result of arena() on a POST: the store and the response.
ArenaPostResult(form) ==
    LET email == Strip(form.email)
    IN  IF email = <<>> THEN [store |-> matches, resp |-> Abort400]
        ELSE IF ArenaFormRejected(form)
        THEN [store |-> matches, resp |-> Abort400]
        ELSE [store |->
                  save_model_arena_match(matches, email, form.piece_key,
                      form.piece_label, form.track_a, form.track_b,
                      form.model_a, form.model_b, form.winner,
                      ChosenOf(form.winner, form.track_a, form.track_b),
                      ChosenOf(form.winner, form.model_a, form.model_b),
                      Strip(form.feedback)),
              resp |->
                  IF RedirectsToSame(form)
                  THEN [status |-> 302, location |-> "arena", email |-> email,
                        piece |-> form.piece_key, arena_status |-> "recorded"]
                  ELSE [status |-> 302, location |-> "arena", email |-> email,
                        piece |-> "", arena_status |-> "recorded"]]

\* Variant: a recorded match is also stored as a rating of track A.
ArenaPost_AlsoRating(form) ==
    /\ req' = [op |-> "arena_post", form |-> form]
    /\ matches' = ArenaPostResult(form).store
    /\ resp' = ArenaPostResult(form).resp
    /\ csv_files' = [csv_files EXCEPT !.matches = Saved(@, matches, ArenaPostResult(form).store)]
    /\ ratings' = IF ArenaPostResult(form).store # matches
                  THEN save_rating(ratings, form.track_a, 10, Strip(form.email), <<>>)
                  ELSE ratings
    /\ UNCHANGED <<uploads, metadata, pending>>

ArenaPost(form) ==
    /\ req' = [op |-> "arena_post", form |-> form]
    /\ matches' = ArenaPostResult(form).store
    /\ resp' = ArenaPostResult(form).resp
    /\ csv_files' = [csv_files EXCEPT !.matches = Saved(@, matches, ArenaPostResult(form).store)]
    /\ UNCHANGED <<uploads, metadata, ratings, pending>>

ArenaMessage(args) ==
    IF args.status = "recorded"
    THEN "Match recorded! Ready for another comparison." ELSE ""

\* The page that serves track_a and track_b of the selected group.
PairPage(args, piece_key, selected_group, track_a, track_b) ==
    [status |-> 200, page |-> "arena", user_email |-> Strip(args.email),
     has_pair |-> TRUE,
     piece_key |-> piece_key, piece_label |-> selected_group.display_label,
     track_a |-> track_a.filename, track_b |-> track_b.filename,
     model_a |-> track_a.model_name, model_b |-> track_b.model_name,
     message |-> ArenaMessage(args)]

NoPairPage(args) ==
    [status |-> 200, page |-> "arena", user_email |-> Strip(args.email),
     has_pair |-> FALSE, message |-> ArenaMessage(args)]

\* Variant: the two positions are drawn with replacement.
SamplePositions_Same(n) == (1..n) \X (1..n)

\* random.sample(tracks, 2): two different positions of the list.
SamplePositions(n) == { p \in (1..n) \X (1..n) : p[1] # p[2] }

\* Variant: the requested group is never kept.
KeepsRequested_Never(args, piece_groups) == FALSE

\* The requested group when it is eligible.
KeepsRequested(args, piece_groups) ==
    args.piece # "" /\ args.piece \in DOMAIN piece_groups

\* first, second = random.sample(tracks, 2), ordered by the coin.
ServePair(args, piece_key, selected_group) ==
    \E p \in SamplePositions(Len(selected_group.tracks)), coin \in BOOLEAN :
        resp' = IF coin
                THEN PairPage(args, piece_key, selected_group,
                              selected_group.tracks[p[1]], selected_group.tracks[p[2]])
                ELSE PairPage(args, piece_key, selected_group,
                              selected_group.tracks[p[2]], selected_group.tracks[p[1]])

\* arena() on a GET, for the groups collect_piece_groups returned.
ArenaServe(args, piece_groups) ==
    IF Strip(args.email) # <<>> /\ DOMAIN piece_groups # {}
    THEN IF KeepsRequested(args, piece_groups)
         THEN ServePair(args, args.piece, piece_groups[args.piece])
         ELSE \E drawn \in DOMAIN piece_groups :
                  ServePair(args, drawn, piece_groups[drawn])
    ELSE resp' = NoPairPage(args)

ArenaGet(args) ==
    /\ req' = [op |-> "arena_get", args |-> args]
    /\ ArenaServe(args, collect_piece_groups)
    /\ UNCHANGED <<uploads, metadata, ratings, matches, csv_files, pending>>

ArenaVisit(Emails, Keys, Statuses) ==
    \E email \in Emails, piece \in Keys, status \in Statuses :
        ArenaGet([status |-> status, email |-> email, piece |-> piece])

ArenaSubmit(Emails, Keys, Labels, Names, Models, Winners, Feedbacks, Actions) ==
    \E email \in Emails, piece_key \in Keys, piece_label \in Labels,
       track_a \in Names, track_b \in Names, model_a \in Models,
       model_b \in Models, winner \in Winners, feedback \in Feedbacks,
       next_action \in Actions :
        ArenaPost([email |-> email, piece_key |-> piece_key,
                   piece_label |-> piece_label,
                   track_a |-> track_a, track_b |-> track_b,
                   model_a |-> model_a, model_b |-> model_b,
                   winner |-> winner, feedback |-> feedback,
                   next_action |-> next_action])

-----------------------------------------------------------------------------
(* Inputs of the requests. *)

TrackA == <<"a", ".", "o", "g", "g">>
TrackB == <<"b", ".", "o", "g", "g">>
ScoreA == <<"a", ".", "m", "s", "c", "z">>
ScoreB == <<"b", ".", "m", "s", "c", "z">>

\* The uploads directory after a.mscz and b.mscz were uploaded and converted.
TwoTracks ==
    {ScoreA, TrackA, <<"a">> \o DotMusicXml, ScoreB, TrackB, <<"b">> \o DotMusicXml}

\* Score fields: absent, 0, 1, 10, 11, not a number, a decimal fraction,
\* 7 written with a blank and a sign, 10 written with an underscore, and a
\* misplaced underscore.
ScoreTexts ==
    {<<>>, <<"0">>, <<"1">>, <<"1", "0">>, <<"1", "1">>, <<"x">>,
     <<"7", ".", "5">>, <<" ", "+", "7">>, <<"1", "_", "0">>, <<"1", "_">>}

\* The score fields of a batch: absent, 0, 10, 11, not a number, and 7
\* written with a blank and a sign.
BatchScoreTexts ==
    {<<>>, <<"0">>, <<"1", "0">>, <<"1", "1">>, <<"x">>, <<" ", "+", "7">>}

-----------------------------------------------------------------------------
(* The rating handler on its own, with every score text. *)

InitRate ==
    /\ uploads = TwoTracks
    /\ metadata = <<>>
    /\ ratings = <<>>
    /\ matches = <<>>
    /\ req = [op |-> "none"]
    /\ resp = [status |-> 0]
    /\ csv_files = NoFiles
    /\ pending = <<>>

NextRate ==
    \/ RateBatchPost({<<>>, <<"a">>}, {TrackA, TrackB}, BatchScoreTexts, {<<>>},
                     MaxRatings - Len(ratings))
    \/ /\ Len(ratings) < MaxRatings
       /\ RateSinglePost({<<>>, <<"a">>}, {TrackA, TrackB}, ScoreTexts,
                         {<<"r", " ">>})
    \/ RatePage({<<>>, <<"a">>, <<"A">>}, {"filename"}, {<<>>}, {<<>>}, {<<>>},
                {"", "no_ratings"})

SpecRate == InitRate /\ [][NextRate]_vars

-----------------------------------------------------------------------------
(* The whole application: every handler, from empty stores and an empty    *)
(* uploads directory.                                                      *)

Init ==
    /\ uploads = {}
    /\ metadata = <<>>
    /\ ratings = <<>>
    /\ matches = <<>>
    /\ req = [op |-> "none"]
    /\ resp = [status |-> 0]
    /\ csv_files = NoFiles
    /\ pending = <<>>

Raters == {<<>>, <<"a">>, <<" ", "A">>}

Next ==
    \/ /\ RowsFree >= 1
       /\ UploadPost({PASSWORD, "guess"}, {ScoreA, ScoreB}, {<<>>}, {<<"B">>}, {<<>>})
    \/ RateBatchPost(Raters, {TrackA}, {<<"7">>, <<"x">>}, {<<>>}, RowsFree)
    \/ /\ RowsFree >= 1
       /\ RateSinglePost(Raters, {TrackB}, {<<"7">>}, {<<>>})
    \/ RatePage(Raters, {"filename"}, {<<>>}, {<<>>}, {<<>>}, {""})
    \/ ArenaVisit({<<>>, <<"a">>}, {"", "composer_only::B"}, {""})
    \/ /\ RowsFree >= 1
       /\ ArenaSubmit({<<"a">>}, {"composer_only::B"}, {"B"}, {TrackA, TrackB},
                      {<<>>}, {<<"A">>, <<>>}, {<<>>}, {"same"})

Spec == Init /\ [][Next]_vars

-----------------------------------------------------------------------------
(* Uploads and the arena page, from a directory that holds two tracks of   *)
(* composer H already: c.ogg without a piece name and d.ogg of piece M.    *)

TrackC == <<"c", ".", "o", "g", "g">>
TrackD == <<"d", ".", "o", "g", "g">>

InitArena ==
    /\ uploads = {<<"c", ".", "m", "s", "c", "z">>, TrackC, <<"c">> \o DotMusicXml,
                  <<"d", ".", "m", "s", "c", "z">>, TrackD, <<"d">> \o DotMusicXml}
    /\ metadata = save_metadata(save_metadata(<<>>, TrackC, <<>>, <<"H">>, <<>>, <<>>),
                                TrackD, <<"m">>, <<"H">>, <<"M">>, <<>>)
    /\ ratings = <<>>
    /\ matches = <<>>
    /\ req = [op |-> "none"]
    /\ resp = [status |-> 0]
    /\ csv_files = [NoFiles EXCEPT !.metadata = WrittenFile]
    /\ pending = <<>>

NextArena ==
    \/ /\ Len(metadata) < MaxMeta
       /\ UploadPost({PASSWORD}, {ScoreA, ScoreB}, {<<>>}, {<<>>, <<"H">>},
                     {<<>>, <<"M">>})
    \/ ArenaVisit({<<>>, <<"a">>},
                  {"", "composer_only::H", "composer::H|piece::M", "file::a"},
                  {"", "recorded"})

SpecArena == InitArena /\ [][NextArena]_vars

-----------------------------------------------------------------------------
(* Claims about the rating handler (checked under SpecRate).  They are     *)
(* stated with a notion of "a score text that is an integer n" of their    *)
(* own: a decimal integer literal of n (digit groups may be separated by   *)
(* an underscore), with or without a plus sign and blanks around it.       *)

Numeral(n) ==
    CASE n = 0 -> <<"0">> [] n = 1 -> <<"1">> [] n = 2 -> <<"2">>
      [] n = 3 -> <<"3">> [] n = 4 -> <<"4">> [] n = 5 -> <<"5">>
      [] n = 6 -> <<"6">> [] n = 7 -> <<"7">> [] n = 8 -> <<"8">>
      [] n = 9 -> <<"9">> [] n = 10 -> <<"1", "0">> [] n = 11 -> <<"1", "1">>

Literals(n) ==
    {Numeral(n)} \cup
    (IF n >= 10 THEN {<<Numeral(n)[1], "_", Numeral(n)[2]>>} ELSE {})

Writes(text, n) ==
    \E lead \in {<<>>, <<" ">>}, sign \in {<<>>, <<"+">>}, trail \in {<<>>, <<" ">>},
       body \in Literals(n) :
        text = lead \o sign \o body \o trail

\* The score text is an integer between 1 and 10.
IsValidScore(text) == \E n \in 1..10 : Writes(text, n)

ValueOf(text) == CHOOSE n \in 1..10 : Writes(text, n)

\* The rows the step has appended to the rating store.
NewRatings == SubSeq(ratings', Len(ratings) + 1, Len(ratings'))

\* The step handles a rating POST that carries an email.
RatePostStep == req'.op = "rate_post" /\ req'.form.email # <<>>

BatchStep == RatePostStep /\ req'.form.batch_submit # <<>>

SingleStep == RatePostStep /\ req'.form.batch_submit = <<>>

\* The listed filenames whose score field is valid, in list order.
ValidEntries(form) ==
    SelectSeq(form.filenames, LAMBDA f : IsValidScore(form.scores[f]))

\* C1: every stored rating has an integer score from 1 to 10, and a rating
\* POST writes a row for an item exactly if the item's score text is an
\* integer from 1 to 10: in a batch, a listed filename gets a row (with that
\* score) iff its score field is valid; in single mode, the row is written
\* iff the score field is valid.
C1_ScoreWrittenIffValid ==
    [][ /\ \A i \in 1..Len(ratings') : ratings'[i].score \in 1..10
        /\ BatchStep =>
             \A f \in Range(req'.form.filenames) :
                 /\ IsValidScore(req'.form.scores[f]) <=>
                        \E i \in 1..Len(NewRatings) : NewRatings[i].filename = f
                 /\ \A i \in 1..Len(NewRatings) :
                        NewRatings[i].filename = f =>
                            NewRatings[i].score = ValueOf(req'.form.scores[f])
        /\ SingleStep /\ req'.form.filename # <<>> =>
             /\ IsValidScore(req'.form.score) <=> Len(NewRatings) = 1
             /\ Len(NewRatings) = 1 =>
                    NewRatings[1].score = ValueOf(req'.form.score)
      ]_vars

\* A batch in which 11 was refused and 10 was stored.
C1_Witness ==
    /\ req.op = "rate_post" /\ req.form.batch_submit # <<>>
    /\ req.form.filenames = <<TrackA, TrackB>>
    /\ req.form.scores[TrackA] = <<"1", "1">>
    /\ req.form.scores[TrackB] = <<"1", "0">>
    /\ Len(ratings) = 1 /\ ratings[1].filename = TrackB /\ ratings[1].score = 10

\* C2: a batch POST appends exactly one row per listed filename with a valid
\* score, in list order, wherever the invalid entries sit, and reports that
\* count.
C2_BatchWritesEachValidEntry ==
    [][ BatchStep =>
          /\ ratings' = ratings \o NewRatings
          /\ Len(NewRatings) = Len(ValidEntries(req'.form))
          /\ \A i \in 1..Len(NewRatings) :
                 /\ NewRatings[i].filename = ValidEntries(req'.form)[i]
                 /\ NewRatings[i].email = req'.form.email
          /\ Len(NewRatings) > 0 => resp'.submitted_count = Len(NewRatings)
      ]_vars

\* A batch whose first entry is invalid and whose second entry was written.
C2_Witness ==
    /\ req.op = "rate_post" /\ req.form.batch_submit # <<>>
    /\ req.form.filenames = <<TrackA, TrackB>>
    /\ req.form.scores[TrackA] = <<"x">>
    /\ req.form.scores[TrackB] = <<" ", "+", "7">>
    /\ resp.status = 200 /\ resp.submitted_count = 1
    /\ Len(ratings) = 1 /\ ratings[1].filename = TrackB /\ ratings[1].score = 7

\* C3 as stated: a batch POST with zero valid scores leaves the store as it
\* is and is answered by the redirect that carries error=no_ratings.
C3_Original ==
    [][ BatchStep /\ ValidEntries(req'.form) = <<>> =>
          /\ ratings' = ratings
          /\ resp'.status = 302 /\ resp'.error = "no_ratings"
      ]_vars

\* C3 amended: the redirect answers a batch that lists at least one
\* filename; a batch that lists none is refused with 400.  Neither writes a
\* row or shows the thank-you page.
C3_NoValidScoreNoRating ==
    [][ BatchStep /\ ValidEntries(req'.form) = <<>> =>
          /\ ratings' = ratings
          /\ IF req'.form.filenames # <<>>
             THEN resp' = [status |-> 302, location |-> "rate",
                           email |-> req'.form.email, error |-> "no_ratings"]
             ELSE resp' = [status |-> 400]
      ]_vars

\* A batch of two filenames, one without a score and one with 0, after
\* which the store is still empty.
C3_Witness ==
    /\ req.op = "rate_post" /\ req.form.batch_submit # <<>>
    /\ req.form.filenames = <<TrackA, TrackB>>
    /\ req.form.scores[TrackA] = <<>> /\ req.form.scores[TrackB] = <<"0">>
    /\ resp.status = 302 /\ resp.error = "no_ratings"
    /\ ratings = <<>>

\* C4: a single-mode POST without a filename, without a score or with a
\* score that is not an integer from 1 to 10 is refused with 400 and writes
\* nothing; with a filename and a valid score (1 and 10 included) it writes
\* exactly one row, for that filename, score and email.
C4_SingleMode ==
    [][ SingleStep =>
          IF req'.form.filename # <<>> /\ IsValidScore(req'.form.score)
          THEN /\ ratings' = Append(ratings,
                      [email |-> req'.form.email, filename |-> req'.form.filename,
                       score |-> ValueOf(req'.form.score),
                       remark |-> NewRatings[1].remark])
               /\ resp'.status = 200
          ELSE ratings' = ratings /\ resp' = [status |-> 400]
      ]_vars

\* A single POST with score 0 was refused after one with score 10 was stored.
C4_Witness ==
    /\ req.op = "rate_post" /\ req.form.batch_submit = <<>>
    /\ req.form.filename = TrackA /\ req.form.score = <<"0">>
    /\ req.form.email # <<>>
    /\ resp = [status |-> 400]
    /\ Len(ratings) = 1 /\ ratings[1].score = 10

\* C5: a rating POST without an email, batch or single, is refused with 400
\* and leaves the rating store as it is.
C5_NoEmailNoRating ==
    [][ req'.op = "rate_post" /\ req'.form.email = <<>> =>
          ratings' = ratings /\ resp' = [status |-> 400]
      ]_vars

\* A batch without an email whose two entries carry valid scores.
C5_Witness ==
    /\ req.op = "rate_post" /\ req.form.email = <<>>
    /\ req.form.filenames = <<TrackA, TrackB>>
    /\ req.form.scores[TrackA] = <<" ", "+", "7">>
    /\ req.form.scores[TrackB] = <<"1", "0">>
    /\ resp = [status |-> 400]
    /\ ratings = <<>>

-----------------------------------------------------------------------------
(* Claims about the rated-set lookup (checked under Spec). *)

\* C6: once a rating by email e for track t is in the store, a GET of the
\* rating page with the same email e does not offer t, whatever else has
\* happened in between.
C6_RatedTrackNotOffered ==
    req.op = "rate_get" =>
        \A i \in 1..Len(resp.tracks) :
            ~\E j \in 1..Len(ratings) :
                /\ ratings[j].email = req.args.email
                /\ ratings[j].filename = resp.tracks[i]

\* Two texts that differ at most in the case of their letters.
DiffersOnlyInCase(e1, e2) ==
    /\ Len(e1) = Len(e2)
    /\ \A i \in 1..Len(e1) :
           \/ e1[i] = e2[i]
           \/ /\ {e1[i], e2[i]} \in {{"a", "A"}, {"b", "B"}}

QueryEmails == {<<"a">>, <<"A">>, <<" ", "a">>, <<" ", "A">>, <<"b">>}

\* C7: for any store contents and any two query emails that differ only in
\* letter case, the lookup returns the same set of filenames, and a rating
\* stored under the one is found when querying with the other.
C7_CaseInsensitiveLookup ==
    \A e1 \in QueryEmails, e2 \in QueryEmails :
        DiffersOnlyInCase(e1, e2) =>
            /\ get_user_rated_tracks(e1) = get_user_rated_tracks(e2)
            /\ \A j \in 1..Len(ratings) :
                   ratings[j].email = e1 =>
                       ratings[j].filename \in get_user_rated_tracks(e2)

-----------------------------------------------------------------------------
(* Claims about piece grouping and the arena pair (checked under           *)
(* SpecArena).                                                             *)

\* The identity key of an uploaded track.
KeyOf(track) == derive_piece_identity(track, get_file_metadata(track)).key

\* The uploaded tracks that share the identity key.
Members(key) == { t \in Range(OggTracks) : KeyOf(t) = key }

\* The filenames of the member tracks of a group.
Filenames(group) == { group.tracks[i].filename : i \in 1..Len(group.tracks) }

\* C8: collect_piece_groups only returns groups of at least two member
\* tracks: the key of exactly one track is never in the result, and a key
\* that two or more tracks share is in the result with all those tracks as
\* members.
C8_GroupsOfTwoOrMore ==
    /\ \A t \in Range(OggTracks) :
           /\ Cardinality(Members(KeyOf(t))) = 1 =>
                  KeyOf(t) \notin DOMAIN collect_piece_groups
           /\ Cardinality(Members(KeyOf(t))) >= 2 =>
                  /\ KeyOf(t) \in DOMAIN collect_piece_groups
                  /\ Filenames(collect_piece_groups[KeyOf(t)]) = Members(KeyOf(t))
    /\ \A k \in DOMAIN collect_piece_groups :
           /\ Len(collect_piece_groups[k].tracks) >= 2
           /\ Cardinality(Members(k)) >= 2

\* The upload of a.mscz with composer H has just given c.ogg, alone in its
\* group before, a second member; d.ogg is still alone under its key.
C8_Witness ==
    /\ req.op = "upload" /\ resp.message = "Uploaded"
    /\ req.form.filename = ScoreA /\ Len(metadata) = 3
    /\ Members("composer_only::H") = {TrackA, TrackC}
    /\ Filenames(collect_piece_groups["composer_only::H"]) = {TrackA, TrackC}
    /\ Members("composer::H|piece::M") = {TrackD}
    /\ DOMAIN collect_piece_groups = {"composer_only::H"}

\* C10: when an arena GET serves a pair, tracks A and B are different
\* filenames, both are members of the eligible group whose key is put in
\* the form, the label in the form is that group's label, and when the only
\* eligible group has exactly two tracks, exactly those two are served.
C10_PairFromOneGroup ==
    req.op = "arena_get" /\ resp.has_pair =>
        /\ Strip(req.args.email) # <<>>
        /\ resp.track_a # resp.track_b
        /\ resp.piece_key \in DOMAIN collect_piece_groups
        /\ {resp.track_a, resp.track_b} \subseteq
               Filenames(collect_piece_groups[resp.piece_key])
        /\ {resp.track_a, resp.track_b} \subseteq Members(resp.piece_key)
        /\ resp.piece_label = collect_piece_groups[resp.piece_key].display_label
        /\ \A k \in DOMAIN collect_piece_groups :
               /\ DOMAIN collect_piece_groups = {k}
               /\ Len(collect_piece_groups[k].tracks) = 2
               => /\ resp.piece_key = k
                  /\ {resp.track_a, resp.track_b} =
                         Filenames(collect_piece_groups[k])

\* The only eligible group holds a.ogg and d.ogg, and the GET served them
\* with the later track of the list as A and the earlier one as B.
C10_Witness ==
    /\ req.op = "arena_get" /\ resp.has_pair
    /\ DOMAIN collect_piece_groups = {"composer::H|piece::M"}
    /\ Len(collect_piece_groups["composer::H|piece::M"].tracks) = 2
    /\ resp.piece_key = "composer::H|piece::M"
    /\ resp.piece_label = "H " \o EmDash \o " M"
    /\ resp.track_a = TrackD /\ resp.track_b = TrackA

-----------------------------------------------------------------------------
(* _derive_piece_identity on its own: the filename and the metadata are    *)
(* drawn from small sets and the function is applied to them.              *)

IdentityFiles == {TrackA, <<"a", ".", "b", ".", "o", "g", "g">>}

IdentityMetadata ==
    [filename : {<<>>},
     model_name : {<<>>, <<"m">>},
     composer : {<<>>, <<"H">>, <<" ", "H">>, <<" ">>},
     piece_name : {<<>>, <<"M">>, <<"M", " ">>, <<" ">>},
     score_filename : {<<>>, ScoreA}]

InitIdentity ==
    /\ uploads = {}
    /\ metadata = <<>>
    /\ ratings = <<>>
    /\ matches = <<>>
    /\ \E md \in IdentityMetadata, filename \in IdentityFiles :
           req = [op |-> "identity", metadata |-> md, filename |-> filename]
    /\ resp = [status |-> 0]
    /\ csv_files = NoFiles
    /\ pending = <<>>

DeriveIdentity ==
    /\ req.op = "identity"
    /\ req' = [req EXCEPT !.op = "derived"]
    /\ resp' = derive_piece_identity(req.filename, req.metadata)
    /\ UNCHANGED <<uploads, metadata, ratings, matches, csv_files, pending>>

NextIdentity == DeriveIdentity

SpecIdentity == InitIdentity /\ [][NextIdentity]_vars

\* The filename without what follows its last dot.
StemOf(filename) ==
    CHOOSE stem \in {SubSeq(filename, 1, n) : n \in 0..Len(filename)} :
        \E ext \in {<<"o", "g", "g">>} : filename = stem \o <<".">> \o ext

\* The key, label and piece name of the four cases for a composer and a
\* piece name.
FourCases(filename, composer, piece_name) ==
    CASE composer # <<>> /\ piece_name # <<>> ->
           [key |-> "composer::" \o Str(composer) \o "|piece::" \o Str(piece_name),
            display_label |-> Str(composer) \o " " \o EmDash \o " " \o Str(piece_name),
            piece_name |-> piece_name]
      [] composer = <<>> /\ piece_name # <<>> ->
           [key |-> "piece::" \o Str(piece_name),
            display_label |-> Str(piece_name),
            piece_name |-> piece_name]
      [] composer # <<>> /\ piece_name = <<>> ->
           [key |-> "composer_only::" \o Str(composer),
            display_label |-> Str(composer),
            piece_name |-> piece_name]
      [] composer = <<>> /\ piece_name = <<>> ->
           [key |-> "file::" \o Str(StemOf(filename)),
            display_label |-> Str(StemOf(filename)),
            piece_name |-> StemOf(filename)]

\* What the function returned, without the composer.
Derived == [key |-> resp.key, display_label |-> resp.display_label,
            piece_name |-> resp.piece_name]

Trimmed(text) ==
    CHOOSE t \in {SubSeq(text, i, j) : i \in 1..Len(text) + 1, j \in 0..Len(text)} :
        /\ \E lead \in {<<>>, <<" ">>}, trail \in {<<>>, <<" ">>} :
               text = lead \o t \o trail
        /\ t = <<>> \/ (t[1] # " " /\ t[Len(t)] # " ")

-----------------------------------------------------------------------------
(* Claims about the arena handler (checked under SpecArena and Spec). *)

\* The GET served a pair of member tracks of the eligible group of the key.
ServedFrom(key) ==
    /\ resp.has_pair
    /\ resp.piece_key = key
    /\ key \in DOMAIN collect_piece_groups
    /\ {resp.track_a, resp.track_b} \subseteq Filenames(collect_piece_groups[key])

\* The requested key is served when it is eligible; when it is not and some
\* group is eligible, a pair of some eligible group is served under that
\* group's key.
RequestedOrFallback ==
    /\ req.args.piece \in DOMAIN collect_piece_groups => ServedFrom(req.args.piece)
    /\ req.args.piece \notin DOMAIN collect_piece_groups
       /\ DOMAIN collect_piece_groups # {}
       => /\ resp.has_pair
          /\ resp.piece_key # req.args.piece
          /\ ServedFrom(resp.piece_key)

\* C11 as stated: every arena GET that names a piece key serves the
\* requested group when it is eligible and otherwise, when some group is
\* eligible, a pair of an eligible group under that group's key.
C11_Original ==
    req.op = "arena_get" /\ req.args.piece # "" => RequestedOrFallback

\* C11 amended: the same, for an arena GET that carries a non-blank email;
\* without one no pair is served.
C11_RequestedGroupOrFallback ==
    req.op = "arena_get" /\ req.args.piece # "" =>
        IF Strip(req.args.email) # <<>> THEN RequestedOrFallback
        ELSE ~resp.has_pair

\* The requested key composer_only::H has one track only; the pair came
\* from the eligible group of a.ogg and d.ogg.
C11_Witness ==
    /\ req.op = "arena_get" /\ req.args.piece = "composer_only::H"
    /\ req.args.email = <<"a">>
    /\ Members("composer_only::H") = {TrackC}
    /\ resp.has_pair /\ resp.piece_key = "composer::H|piece::M"
    /\ {resp.track_a, resp.track_b} = {TrackA, TrackD}

-----------------------------------------------------------------------------
(* The arena POST on its own: forms of every shape (a missing, blank or    *)
(* padded email, missing tracks, winners other than A and B), and valid    *)
(* forms whose two sides carry different model names.                      *)

NextMatch ==
    \/ /\ Len(matches) < MaxMatches
       /\ ArenaSubmit({<<>>, <<" ">>, <<" ", "a">>}, {"k"}, {"L"},
                      {<<>>, TrackC, TrackD}, {<<"m">>},
                      {<<>>, <<"A">>, <<"B">>, <<"a">>}, {<<>>}, {"same"})
    \/ /\ Len(matches) < MaxMatches
       /\ ArenaSubmit({<<" ", "a">>}, {"k"}, {"L"}, {TrackC, TrackD},
                      {<<>>, <<"m">>}, {<<"B">>}, {<<>>}, {"same"})
    \/ /\ Len(matches) < MaxMatches
       /\ ArenaSubmit({<<"a">>}, {"", "k"}, {"L"}, {TrackC}, {<<>>}, {<<"A">>},
                      {<<>>}, {"same", "new", "", "Same"})

SpecMatch == InitArena /\ [][NextMatch]_vars

\* The step handles an arena POST.
ArenaPostStep == req'.op = "arena_post"

\* C12: an arena POST whose winner is not exactly A or B, or whose track_a
\* or track_b is missing or empty, or whose email is missing, is answered
\* 400 and appends nothing to the match store.
C12_BadArenaPostRejected ==
    [][ /\ ArenaPostStep
        /\ \/ req'.form.winner \notin {<<"A">>, <<"B">>}
           \/ req'.form.track_a = <<>>
           \/ req'.form.track_b = <<>>
           \/ req'.form.email = <<>>
        => matches' = matches /\ resp' = [status |-> 400]
      ]_vars

\* A POST with an email and both tracks but winner "a" was refused after a
\* match had been stored.
C12_Witness ==
    /\ req.op = "arena_post"
    /\ req.form.email = <<" ", "a">> /\ req.form.winner = <<"a">>
    /\ req.form.track_a = TrackC /\ req.form.track_b = TrackD
    /\ resp = [status |-> 400]
    /\ Len(matches) = 1

\* The winner fields of a match record agree with its two sides.
Consistent(match) ==
    \/ /\ match.winner_label = <<"A">>
       /\ match.winner_track = match.track_a
       /\ match.winner_model = match.model_a
    \/ /\ match.winner_label = <<"B">>
       /\ match.winner_track = match.track_b
       /\ match.winner_model = match.model_b

\* C13: every stored match has winner label A or B, the winner track and
\* model of that side, and an accepted arena POST appends exactly one such
\* record, with the submitted sides.
C13_MatchesConsistent ==
    [][ /\ \A i \in 1..Len(matches') : Consistent(matches'[i])
        /\ ArenaPostStep /\ resp'.status = 302 =>
             /\ Len(matches') = Len(matches) + 1
             /\ SubSeq(matches', 1, Len(matches)) = matches
             /\ matches'[Len(matches')].track_a = req'.form.track_a
             /\ matches'[Len(matches')].track_b = req'.form.track_b
             /\ matches'[Len(matches')].model_a = req'.form.model_a
             /\ matches'[Len(matches')].model_b = req'.form.model_b
             /\ matches'[Len(matches')].winner_label = req'.form.winner
      ]_vars

\* Two stored matches: B won with d.ogg and no model name, then A won with
\* c.ogg of model m.
C13_Witness ==
    /\ req.op = "arena_post" /\ resp.status = 302
    /\ Len(matches) = 2
    /\ matches[1].winner_label = <<"B">> /\ matches[1].winner_track = TrackD
    /\ matches[1].track_a = TrackC /\ matches[1].model_a = <<"m">>
    /\ matches[1].winner_model = <<>>
    /\ matches[2].winner_label = <<"A">> /\ matches[2].winner_track = TrackC
    /\ matches[2].track_b = TrackD /\ matches[2].winner_model = <<"m">>

\* C14: every stored match compares two different existing tracks that
\* both belong to the piece group the record's piece key names.
C14_MatchWithinOneGroup ==
    \A i \in 1..Len(matches) :
        /\ matches[i].track_a # matches[i].track_b
        /\ {matches[i].track_a, matches[i].track_b} \subseteq Range(OggTracks)
        /\ KeyOf(matches[i].track_a) = matches[i].piece_key
        /\ KeyOf(matches[i].track_b) = matches[i].piece_key

-----------------------------------------------------------------------------
(* Claims about what a rating refers to and about the upload handler. *)

\* C15: a rating POST only persists records for filenames that are listed
\* .ogg tracks at the time of the POST.
C15_RatingOfListedTrack ==
    [][ req'.op = "rate_post" =>
          \A i \in 1..Len(NewRatings) :
              NewRatings[i].filename \in Range(OggTracks)
      ]_vars

-----------------------------------------------------------------------------
(* The upload handler on its own: a wrong password, no file and a          *)
(* disallowed file, and authorized uploads of a.mscz and a.MSCZ with       *)
(* padded, blank and missing fields and every converter outcome.           *)

ScoreUpper == <<"a", ".", "M", "S", "C", "Z">>
TextFile == <<"a", ".", "t", "x", "t">>

PaddedModels == {<<>>, <<" ", "m">>}
PaddedComposers == {<<>>, <<"H", " ">>}
PaddedPieces == {<<" ">>, <<"M">>}

NextUpload ==
    \/ /\ Len(metadata) < MaxUploads
       /\ UploadPost({"guess", ""}, {ScoreA}, PaddedModels, {<<"H", " ">>}, {<<"M">>})
    \/ /\ Len(metadata) < MaxUploads
       /\ UploadPost({PASSWORD}, {<<>>, TextFile}, {<<>>}, {<<"H", " ">>}, {<<"M">>})
    \/ /\ Len(metadata) < MaxUploads
       /\ UploadPost({PASSWORD}, {ScoreA, ScoreUpper}, PaddedModels,
                     PaddedComposers, PaddedPieces)

SpecUpload == Init /\ [][NextUpload]_vars

\* The step handles an upload POST.
UploadStep == req'.op = "upload"

\* The spellings of the allowed extension that occur in the requests.
AllowedSpellings == {<<"m", "s", "c", "z">>, <<"M", "S", "C", "Z">>}

\* The name ends with a dot and the allowed extension, in either case.
HasAllowedExtension(name) ==
    \E e \in AllowedSpellings :
        Len(name) > Len(e) /\ SubSeq(name, Len(name) - Len(e), Len(name)) = <<".">> \o e

\* The .ogg name derived from the name of an allowed score file.
DerivedOgg(name) ==
    SubSeq(name, 1, Len(name) - 5) \o <<".", "o", "g", "g">>

\* The step handles an authorized upload of an allowed file.
AcceptedUploadStep ==
    /\ UploadStep
    /\ req'.form.password = PASSWORD
    /\ HasAllowedExtension(req'.form.filename)

\* C16: an upload POST with a password other than the configured one
\* changes no state: no file is written, the converter is not run and no
\* metadata record is appended, whatever the request carries.
C16_WrongPasswordNoChange ==
    [][ UploadStep /\ req'.form.password # PASSWORD =>
          /\ uploads' = uploads /\ metadata' = metadata
          /\ ratings' = ratings /\ matches' = matches
          /\ req'.runs = <<>>
          /\ resp' = [status |-> 200, page |-> "upload",
                      message |-> "Incorrect password."]
      ]_vars

\* An upload of a.mscz with model, composer and piece and a converter that
\* would succeed was refused for its password; nothing is stored.
C16_Witness ==
    /\ req.op = "upload" /\ req.form.password = "guess"
    /\ req.form.filename = ScoreA /\ req.form.model_name = <<" ", "m">>
    /\ req.conv = "ok" /\ req.runs = <<>>
    /\ resp.message = "Incorrect password."
    /\ uploads = {} /\ metadata = <<>>

\* C17: an authorized upload POST without a file, or with a file whose
\* extension is not mscz in either case, stores nothing (no raw file, no
\* derived track, no metadata record, no converter run) and re-renders the
\* form with an error message; a file with the extension in either case is
\* stored.
C17_NoFileOrDisallowedStoresNothing ==
    [][ UploadStep /\ req'.form.password = PASSWORD =>
          IF HasAllowedExtension(req'.form.filename)
          THEN req'.form.filename \in uploads'
          ELSE /\ uploads' = uploads /\ metadata' = metadata
               /\ req'.runs = <<>>
               /\ resp'.status = 200 /\ resp'.page = "upload"
               /\ resp'.message = IF req'.form.filename = <<>>
                                  THEN "No score selected."
                                  ELSE "File type not allowed."
      ]_vars

\* a.txt was refused after a.MSCZ had been stored.
C17_Witness ==
    /\ req.op = "upload" /\ req.form.password = PASSWORD
    /\ req.form.filename = TextFile
    /\ resp.message = "File type not allowed."
    /\ ScoreUpper \in uploads /\ TextFile \notin uploads

\* C18: when a converter call fails during an authorized upload of an
\* allowed file, the failure is reported as a message on the re-rendered
\* form, the raw file stays stored, nothing that was stored is lost, no
\* metadata record is appended, and no converter call is made twice.
C18_ConversionFailureKeepsRawFile ==
    [][ AcceptedUploadStep /\ req'.conv # "ok" =>
          /\ resp' = [status |-> 200, page |-> "upload",
                      message |-> "Conversion failed"]
          /\ req'.form.filename \in uploads'
          /\ uploads \subseteq uploads'
          /\ metadata' = metadata
          /\ Len(req'.runs) \in 1..2
          /\ \A i, j \in DOMAIN req'.runs : req'.runs[i] = req'.runs[j] => i = j
      ]_vars

\* The second converter call of an upload with composer and piece failed:
\* the raw file is stored and there is no metadata record.
C18_Witness ==
    /\ req.op = "upload" /\ req.form.password = PASSWORD
    /\ req.form.filename = ScoreA /\ req.conv = "fail_xml"
    /\ req.form.composer = <<"H", " ">> /\ req.form.piece_name = <<"M">>
    /\ resp.message = "Conversion failed"
    /\ ScoreA \in uploads /\ metadata = <<>>

\* The record a successful upload stores, by the request's fields.
RecordOf(form) ==
    [filename |-> DerivedOgg(form.filename),
     model_name |-> Trimmed(form.model_name),
     composer |-> Trimmed(form.composer),
     piece_name |-> Trimmed(form.piece_name),
     score_filename |-> <<>>]

\* C19: a successful upload (authorized, allowed extension, both
\* conversions succeed) appends exactly one metadata record, keyed by the
\* derived .ogg filename and holding the trimmed model_name, composer and
\* piece_name with an empty score_filename, if at least one of the three is
\* non-empty after trimming, and appends no record if all three are empty.
C19_SuccessfulUploadAppendsOneRecord ==
    [][ AcceptedUploadStep /\ req'.conv = "ok" =>
          metadata' =
              IF \/ Trimmed(req'.form.model_name) # <<>>
                 \/ Trimmed(req'.form.composer) # <<>>
                 \/ Trimmed(req'.form.piece_name) # <<>>
              THEN Append(metadata, RecordOf(req'.form))
              ELSE metadata
      ]_vars

\* a.mscz was uploaded with composer "H " and piece M and no model: the
\* one record is (a.ogg, "", H, M, "").
C19_Witness ==
    /\ req.op = "upload" /\ req.conv = "ok" /\ req.form.filename = ScoreA
    /\ req.form.model_name = <<>> /\ req.form.composer = <<"H", " ">>
    /\ req.form.piece_name = <<"M">>
    /\ resp.message = "Uploaded"
    /\ metadata = <<[filename |-> TrackA, model_name |-> <<>>,
                     composer |-> <<"H">>, piece_name |-> <<"M">>,
                     score_filename |-> <<>>]>>

\* An upload whose three fields are missing or blank succeeded and stored
\* no record.
C19_WitnessBlank ==
    /\ req.op = "upload" /\ req.conv = "ok" /\ req.form.filename = ScoreA
    /\ req.form.model_name = <<>> /\ req.form.composer = <<>>
    /\ req.form.piece_name = <<" ">>
    /\ resp.message = "Uploaded" /\ TrackA \in uploads
    /\ metadata = <<>>

-----------------------------------------------------------------------------
(* Claim about the metadata lookup across uploads (checked under           *)
(* SpecArena, where a.mscz and b.mscz are uploaded again and again with    *)
(* different composers and piece names next to the tracks c and d).        *)

\* The filenames that have a record in the store.
Recorded(store) == { store[i].filename : i \in 1..Len(store) }

\* The earliest record of the store for the filename.
EarliestRecord(store, filename) ==
    store[CHOOSE i \in 1..Len(store) :
              /\ store[i].filename = filename
              /\ \A j \in 1..(i - 1) : store[j].filename # filename]

\* The identity key of a track, for the rows of metadata.csv.
KeyIn(store, track) == derive_piece_identity(track, FirstMatch(store, track)).key

\* The track is a member of a group the arena can serve, for the files of
\* the uploads directory and the rows of metadata.csv.
Eligible(directory, store, track) ==
    KeyIn(store, track) \in DOMAIN RetainedGroups(Buckets(directory, store))

\* The store after the upload is the store before it, or that with one
\* more record for the track.
AppendsFor(before, after, track) ==
    \/ after = before
    \/ /\ Len(after) = Len(before) + 1
       /\ SubSeq(after, 1, Len(before)) = before
       /\ after[Len(after)].filename = track

\* What C20 says of one upload, from the directory and the store before it
\* to those after it.
FirstWriteWins(directory, store, directory2, store2, uploaded) ==
    /\ \A f \in Recorded(store2) : FirstMatch(store2, f) = EarliestRecord(store2, f)
    /\ \A f \in Recorded(store) :
           /\ FirstMatch(store2, f) = FirstMatch(store, f)
           /\ KeyIn(store2, f) = KeyIn(store, f)
           /\ f = DerivedOgg(uploaded) =>
                  /\ AppendsFor(store, store2, f)
                  /\ Eligible(directory2, store2, f) = Eligible(directory, store, f)

\* C20: the metadata lookup is first-write-wins: after every upload the
\* metadata returned for a filename is the earliest record appended for
\* it; an upload of a file whose track already has a record may append
\* another record for it, but leaves the looked-up metadata, the group key
\* and the arena eligibility of the track as they were.
C20_FirstWriteWins ==
    [][ UploadStep =>
          \A directory2 \in {uploads'}, store2 \in {metadata'}, request \in {req'} :
              FirstWriteWins(uploads, metadata, directory2, store2,
                             request.form.filename)
      ]_vars

\* a.mscz was uploaded with composer H and then again with composer H and
\* piece M: both records are stored, the lookup still returns the first,
\* and a.ogg is still in the group of composer H with c.ogg.
C20_Witness ==
    /\ req.op = "upload" /\ req.form.filename = ScoreA
    /\ req.form.piece_name = <<"M">>
    /\ Len(metadata) = 4
    /\ metadata[3].filename = TrackA /\ metadata[3].piece_name = <<>>
    /\ metadata[4].filename = TrackA /\ metadata[4].piece_name = <<"M">>
    /\ get_file_metadata(TrackA) = metadata[3]
    /\ KeyOf(TrackA) = "composer_only::H"
    /\ KeyOf(TrackA) \in DOMAIN collect_piece_groups

-----------------------------------------------------------------------------
(* Claim about the redirect after an arena POST (checked under SpecMatch). *)

\* The form passes the checks of the arena POST.
ArenaAccepted(form) ==
    /\ Trimmed(form.email) # <<>>
    /\ form.winner \in {<<"A">>, <<"B">>}
    /\ form.track_a # <<>> /\ form.track_b # <<>>

\* C24: an accepted arena POST is answered by a redirect to the arena that
\* carries the submitted piece key if and only if next_action is "same" and
\* the piece key is non-empty, and carries no piece key in every other case;
\* the match record is in the store when the redirect is sent.
C24_RedirectSameOrNew ==
    [][ ArenaPostStep /\ ArenaAccepted(req'.form) =>
          /\ resp' = [status |-> 302, location |-> "arena",
                      email |-> Trimmed(req'.form.email),
                      piece |-> IF /\ req'.form.next_action = "same"
                                   /\ req'.form.piece_key # ""
                                THEN req'.form.piece_key ELSE "",
                      arena_status |-> "recorded"]
          /\ Len(matches') = Len(matches) + 1
          /\ matches'[Len(matches')].track_a = req'.form.track_a
      ]_vars

\* A match of group k was stored with next_action "new": the redirect
\* carries no piece key.
C24_Witness ==
    /\ req.op = "arena_post" /\ req.form.piece_key = "k"
    /\ req.form.next_action = "new"
    /\ resp.status = 302 /\ resp.piece = ""
    /\ Len(matches) = 1

-----------------------------------------------------------------------------
(* Claim about the isolation of raters: single ratings of a.ogg and b.ogg  *)
(* by the emails a, " A" and b, and the rating page for those emails in    *)
(* either case.                                                            *)

NextRaters ==
    \/ /\ Len(ratings) < MaxRatings
       /\ RateSinglePost({<<"a">>, <<" ", "A">>, <<"b">>}, {TrackA, TrackB},
                         {<<"7">>}, {<<>>})
    \/ RatePage({<<"a">>, <<"A">>, <<" ", "A">>, <<"b">>, <<"B">>}, {"filename"},
                {<<>>}, {<<>>}, {<<>>}, {""})

SpecRaters == InitRate /\ [][NextRaters]_vars

\* C25: raters are isolated from one another: a track is missing from the
\* list the rating page offers to an email only if a rating of that track
\* is stored under an email that equals it ignoring case; a rating stored
\* under any other email removes nothing from the list.
C25_RatersIsolated ==
    req.op = "rate_get" /\ req.args.email # <<>> =>
        \A t \in Range(OggTracks) \ Range(resp.tracks) :
            \E j \in 1..Len(ratings) :
                /\ ratings[j].filename = t
                /\ DiffersOnlyInCase(ratings[j].email, req.args.email)

\* Two emails that are equal ignoring case and surrounding whitespace.
SameRater(e1, e2) == DiffersOnlyInCase(Trimmed(e1), Trimmed(e2))

\* What holds instead: a track is missing from the list of an email only if
\* a rating of it is stored under an email that equals it ignoring case and
\* surrounding whitespace.
IsolatedUpToWhitespace ==
    req.op = "rate_get" /\ req.args.email # <<>> =>
        \A t \in Range(OggTracks) \ Range(resp.tracks) :
            \E j \in 1..Len(ratings) :
                /\ ratings[j].filename = t
                /\ SameRater(ratings[j].email, req.args.email)

-----------------------------------------------------------------------------
(* Claim about the track list of the rating page: four tracks, of which    *)
(* a.ogg and c.ogg share the composer H, b.ogg has composer B and d.ogg    *)
(* has no metadata; ratings by a and by " A"; and the page for A and " A"  *)
(* with every sort key and filter.                                         *)

InitList ==
    /\ uploads = {TrackA, TrackB, TrackC, TrackD}
    /\ metadata =
           save_metadata(
               save_metadata(
                   save_metadata(<<>>, TrackA, <<"m">>, <<"H">>, <<"M">>, <<>>),
                   TrackB, <<>>, <<"B">>, <<"M">>, <<>>),
               TrackC, <<"n">>, <<"H">>, <<>>, <<>>)
    /\ ratings = <<>>
    /\ matches = <<>>
    /\ req = [op |-> "none"]
    /\ resp = [status |-> 0]
    /\ csv_files = [NoFiles EXCEPT !.metadata = WrittenFile]
    /\ pending = <<>>

NextList ==
    \/ /\ Len(ratings) < MaxRatings
       /\ RateSinglePost({<<"a">>, <<" ", "A">>}, {TrackA, TrackC}, {<<"7">>}, {<<>>})
    \/ RatePage({<<"A">>, <<" ", "A">>},
                {"filename", "composer", "piece", "model", "date"},
                {<<>>, <<"H">>}, {<<>>, <<"M">>}, {<<>>, <<"m">>}, {""})

SpecList == InitList /\ [][NextList]_vars

\* The tracks the email has rated: the filenames of the ratings stored
\* under an email that equals it ignoring case.
RatedBy(email) ==
    { ratings[j].filename : j \in
        { i \in 1..Len(ratings) : DiffersOnlyInCase(ratings[i].email, email) } }

\* The metadata of a track: its earliest record, or empty fields.
MetadataOf(track) ==
    IF track \in Recorded(metadata) THEN EarliestRecord(metadata, track)
    ELSE [filename |-> track, model_name |-> <<>>, composer |-> <<>>,
          piece_name |-> <<>>, score_filename |-> <<>>]

\* The track passes the filters of the query.
PassesFilters(args, track) ==
    /\ args.composer # <<>> => MetadataOf(track).composer = args.composer
    /\ args.piece # <<>> => MetadataOf(track).piece_name = args.piece
    /\ args.model # <<>> => MetadataOf(track).model_name = args.model

\* The text a track is ordered by.
SortKey(args, track) ==
    CASE args.sort = "composer" -> MetadataOf(track).composer
      [] args.sort = "piece" -> MetadataOf(track).piece_name
      [] args.sort = "model" -> MetadataOf(track).model_name
      [] OTHER -> track

\* The first track comes before the second in the requested order.
ListedBefore(args, t1, t2) ==
    \/ StrLess(SortKey(args, t1), SortKey(args, t2))
    \/ SortKey(args, t1) = SortKey(args, t2) /\ StrLess(t1, t2)

\* C23: the track list of GET /rate for an email is exactly the existing
\* .ogg tracks minus the tracks that email has rated, restricted to the
\* tracks that match every non-empty filter exactly, each listed once and
\* ordered by the requested key with ties, and any other sort value, by
\* filename ascending.
C23_TrackList ==
    req.op = "rate_get" /\ req.args.email # <<>> =>
        /\ Range(resp.tracks) =
               { t \in Range(OggTracks) \ RatedBy(req.args.email) :
                     PassesFilters(req.args, t) }
        /\ \A i, j \in 1..Len(resp.tracks) :
               i < j => ListedBefore(req.args, resp.tracks[i], resp.tracks[j])

\* No stored email and no queried email has blanks around it.
PlainEmails ==
    /\ \A i \in 1..Len(ratings) : Trimmed(ratings[i].email) = ratings[i].email
    /\ req.op = "rate_get" => Trimmed(req.args.email) = req.args.email

\* What holds instead: the list is as C23 says as long as no email has
\* blanks around it.
TrackListForPlainEmails == PlainEmails => C23_TrackList

\* Sorted by composer, for a rater without ratings: d.ogg (no composer),
\* b.ogg (B), then a.ogg and c.ogg (both H) by filename.
ListSortedByComposer ==
    /\ req.op = "rate_get" /\ req.args.email = <<"A">> /\ ratings = <<>>
    /\ req.args.sort = "composer" /\ req.args.composer = <<>>
    /\ req.args.piece = <<>> /\ req.args.model = <<>>
    /\ resp.tracks = <<TrackD, TrackB, TrackA, TrackC>>

-----------------------------------------------------------------------------
(* Claim about tracks without metadata (checked under SpecUpload). *)

\* C28: every listed .ogg track that was produced by an upload that gave a
\* model name, a composer or a piece name has a metadata record: when the
\* audio conversion of such an upload has succeeded and its track is
\* listed, the track has a record.
C28_ListedTrackHasMetadata ==
    /\ req.op = "upload" /\ req.form.password = PASSWORD
    /\ HasAllowedExtension(req.form.filename)
    /\ req.conv # "fail_ogg"
    /\ \/ Trimmed(req.form.model_name) # <<>>
       \/ Trimmed(req.form.composer) # <<>>
       \/ Trimmed(req.form.piece_name) # <<>>
    /\ DerivedOgg(req.form.filename) \in Range(OggTracks)
    => DerivedOgg(req.form.filename) \in Recorded(metadata)

-----------------------------------------------------------------------------
(* Claims about which tracks share a group: next to c.ogg and d.ogg, which *)
(* are both of composer A and piece C, a.mscz and b.mscz are uploaded      *)
(* without fields or with a model name only, and with composers and piece  *)
(* names of which two contain the text "|piece::"; the arena page is       *)
(* visited with and without the key of a.ogg.                              *)

ComposerA == <<"A">>
ComposerAB == <<"A", "|", "p", "i", "e", "c", "e", ":", ":", "B">>
PieceC == <<"C">>
PieceBC == <<"B", "|", "p", "i", "e", "c", "e", ":", ":", "C">>

InitGroup ==
    /\ uploads = {<<"c", ".", "m", "s", "c", "z">>, TrackC, <<"c">> \o DotMusicXml,
                  <<"d", ".", "m", "s", "c", "z">>, TrackD, <<"d">> \o DotMusicXml}
    /\ metadata = save_metadata(save_metadata(<<>>, TrackC, <<>>, ComposerA, PieceC, <<>>),
                                TrackD, <<"m">>, ComposerA, PieceC, <<>>)
    /\ ratings = <<>>
    /\ matches = <<>>
    /\ req = [op |-> "none"]
    /\ resp = [status |-> 0]
    /\ csv_files = [NoFiles EXCEPT !.metadata = WrittenFile]
    /\ pending = <<>>

NextGroup ==
    \/ /\ Len(metadata) < 2 + MaxUploads
       /\ UploadPost({PASSWORD}, {ScoreA, ScoreB}, {<<>>, <<"m">>}, {<<>>}, {<<>>})
    \/ /\ Len(metadata) < 2 + MaxUploads
       /\ UploadPost({PASSWORD}, {ScoreA, ScoreB}, {<<>>}, {ComposerA, ComposerAB},
                     {PieceC, PieceBC})
    \/ ArenaVisit({<<"a">>}, {"", "file::a"}, {""})

SpecGroup == InitGroup /\ [][NextGroup]_vars

\* The trimmed composer and piece name of a track.
PairOf(track) ==
    <<Trimmed(MetadataOf(track).composer), Trimmed(MetadataOf(track).piece_name)>>

\* The two tracks are members of one bucket of the grouping.
SameGroup(t1, t2) ==
    \E k \in DOMAIN AllBuckets : {t1, t2} \subseteq Filenames(AllBuckets[k])

\* C26: two tracks fall into the same piece group if and only if their
\* trimmed (composer, piece_name) pairs are equal and not both empty; so
\* every member of an eligible group carries the composer and the piece
\* name of the group, and the label of the group is the one of that pair.
C26_SameGroupIffSamePair ==
    /\ \A t1, t2 \in Range(OggTracks) :
           t1 # t2 =>
               (SameGroup(t1, t2) <=>
                    PairOf(t1) = PairOf(t2) /\ PairOf(t1) # <<<<>>, <<>>>>)
    /\ \A k \in DOMAIN collect_piece_groups :
           \A t \in Filenames(collect_piece_groups[k]) :
               /\ PairOf(t)[1] = collect_piece_groups[k].composer
               /\ PairOf(t)[2] = collect_piece_groups[k].piece_name
               /\ collect_piece_groups[k].display_label =
                      FourCases(t, PairOf(t)[1], PairOf(t)[2]).display_label

\* C27: a track without composer and piece name (no metadata record, or a
\* record with a model name only) is never arena-eligible: its key is
\* file:: and its stem, no other track has that key, the key is not among
\* the groups of the arena, and no arena page serves the track.
C27_FileKeyNeverEligible ==
    \A t \in Range(OggTracks) :
        PairOf(t) = <<<<>>, <<>>>> =>
            /\ KeyOf(t) = "file::" \o Str(StemOf(t))
            /\ Members(KeyOf(t)) = {t}
            /\ KeyOf(t) \notin DOMAIN collect_piece_groups
            /\ \A k \in DOMAIN collect_piece_groups :
                   t \notin Filenames(collect_piece_groups[k])
            /\ req.op = "arena_get" /\ resp.has_pair =>
                   t \notin {resp.track_a, resp.track_b}

\* a.ogg has a record with a model name only and b.ogg has none; the arena
\* page asked for the key of a.ogg serves the pair of c.ogg and d.ogg.
C27_Witness ==
    /\ {TrackA, TrackB} \subseteq Range(OggTracks)
    /\ TrackA \in Recorded(metadata) /\ TrackB \notin Recorded(metadata)
    /\ get_file_metadata(TrackA).model_name = <<"m">>
    /\ PairOf(TrackA) = <<<<>>, <<>>>>
    /\ req.op = "arena_get" /\ req.args.piece = "file::a"
    /\ resp.has_pair /\ {resp.track_a, resp.track_b} = {TrackC, TrackD}

-----------------------------------------------------------------------------
(* Batch rating POSTs that are handled concurrently.  Each of two clients  *)
(* sends one batch; the handler of a request runs step by step, and        *)
(* between two of its steps the handler of the other request may run.  A   *)
(* step ends where the handler reads or writes ratings.csv: the existence  *)
(* check of save_rating, the open for append (which creates the file), and *)
(* the write of the buffered rows when the file is closed.                 *)

Clients == {1, 2}

\* A client whose request has not arrived.
Idle ==
    [form |-> BatchForm(<<>>, <<>>, <<>>, <<>>), resp |-> [status |-> 0],
     submitted_count |-> 0, pc |-> "idle", index |-> 0, new |-> FALSE, seen |-> 0]

\* The request arrives; without an email or without filenames it is
\* answered 400 at once, otherwise the loop over the filenames begins.
Receive(c, form) ==
    /\ pending[c].pc = "idle"
    /\ IF EmailMissing(form) \/ form.filenames = <<>>
       THEN /\ pending' = [pending EXCEPT ![c] =
                               [Idle EXCEPT !.form = form, !.resp = Abort400,
                                            !.pc = "done"]]
            /\ req' = [op |-> "rate_post", form |-> form]
            /\ resp' = Abort400
       ELSE /\ pending' = [pending EXCEPT ![c] =
                               [Idle EXCEPT !.form = form, !.pc = "loop",
                                            !.index = 1]]
            /\ UNCHANGED <<req, resp>>
    /\ UNCHANGED <<uploads, metadata, ratings, matches, csv_files>>

ReceiveBatch(c, Emails, Names, Scores) ==
    \E email \in Emails, filenames \in SeqUpTo(Names, MaxBatch) :
        \E scores \in [Range(filenames) -> Scores] :
            Receive(c, BatchForm(email, filenames, scores,
                                 [f \in Range(filenames) |-> <<>>]))

\* The next filename of the loop: an entry without a valid score is
\* skipped; for a valid one save_rating is entered and looks whether
\* ratings.csv exists.
Examine(c) ==
    /\ pending[c].pc = "loop"
    /\ pending[c].index <= Len(pending[c].form.filenames)
    /\ IF ScoreAccepted(FormGet(pending[c].form.scores,
                                pending[c].form.filenames[pending[c].index]))
       THEN pending' = [pending EXCEPT ![c].pc = "open",
                                       ![c].new = ~csv_files.ratings.exists]
       ELSE pending' = [pending EXCEPT ![c].index = @ + 1]
    /\ UNCHANGED <<uploads, metadata, ratings, matches, req, resp, csv_files>>

\* RATINGS_CSV.open("a"): the file exists from now on.
Open(c) ==
    /\ pending[c].pc = "open"
    /\ csv_files' = [csv_files EXCEPT !.ratings.exists = TRUE]
    /\ pending' = [pending EXCEPT ![c].pc = "write", ![c].seen = Len(ratings)]
    /\ UNCHANGED <<uploads, metadata, ratings, matches, req, resp>>

\* Variant: the row is written where the file ended when it was opened.
AppendRow_AtOpen(store, seen, filename, score, email, remark) ==
    save_rating(SubSeq(store, 1, seen), filename, score, email, remark)

\* A write to a file opened for append lands at the end the file has at
\* the time of the write.
AppendRow(store, seen, filename, score, email, remark) ==
    save_rating(store, filename, score, email, remark)

\* The rows of the writer reach the file when it is closed: the header row
\* if the file was found missing, and the data row.
Write(c) ==
    /\ pending[c].pc = "write"
    /\ ratings' =
           AppendRow(ratings, pending[c].seen,
                     pending[c].form.filenames[pending[c].index],
                     ParseInt(FormGet(pending[c].form.scores,
                                      pending[c].form.filenames[pending[c].index])).val,
                     pending[c].form.email,
                     Strip(FormGet(pending[c].form.remarks,
                                   pending[c].form.filenames[pending[c].index])))
    /\ csv_files' = [csv_files EXCEPT !.ratings.headers =
                        IF pending[c].new THEN Append(@, Len(ratings)) ELSE @]
    /\ pending' = [pending EXCEPT ![c].pc = "loop", ![c].index = @ + 1,
                                  ![c].submitted_count = @ + 1]
    /\ UNCHANGED <<uploads, metadata, matches, req, resp>>

\* The response after the loop.
BatchResponse(form, submitted_count) ==
    IF NoneSubmitted(submitted_count)
    THEN [status |-> 302, location |-> "rate", email |-> form.email,
          error |-> "no_ratings"]
    ELSE [status |-> 200, page |-> "thanks", user_email |-> form.email,
          submitted_count |-> submitted_count]

Respond(c) ==
    /\ pending[c].pc = "loop"
    /\ pending[c].index > Len(pending[c].form.filenames)
    /\ pending' = [pending EXCEPT
                      ![c].pc = "done",
                      ![c].resp = BatchResponse(pending[c].form,
                                                pending[c].submitted_count)]
    /\ req' = [op |-> "rate_post", form |-> pending[c].form]
    /\ resp' = BatchResponse(pending[c].form, pending[c].submitted_count)
    /\ UNCHANGED <<uploads, metadata, ratings, matches, csv_files>>

InitConcurrent ==
    /\ uploads = TwoTracks
    /\ metadata = <<>>
    /\ ratings = <<>>
    /\ matches = <<>>
    /\ req = [op |-> "none"]
    /\ resp = [status |-> 0]
    /\ csv_files = NoFiles
    /\ pending \in [Clients -> {Idle}]

NextConcurrent ==
    \/ ReceiveBatch(1, {<<"a">>}, {TrackA, TrackB}, {<<"7">>, <<"x">>})
    \/ ReceiveBatch(2, {<<"b">>}, {TrackB}, {<<"9">>, <<>>})
    \/ \E c \in Clients : Examine(c)
    \/ \E c \in Clients : Open(c)
    \/ \E c \in Clients : Write(c)
    \/ \E c \in Clients : Respond(c)

SpecConcurrent == InitConcurrent /\ [][NextConcurrent]_vars

\* C22: each store's header row is written exactly once, as the first row
\* of the file: whenever a store holds a row, it holds exactly one header
\* row and that row precedes every data row, also when the requests that
\* write to it are handled concurrently.
C22_HeaderOnceAndFirst ==
    /\ ratings # <<>> \/ csv_files.ratings.headers # <<>> =>
           csv_files.ratings.headers = <<0>>
    /\ metadata # <<>> \/ csv_files.metadata.headers # <<>> =>
           csv_files.metadata.headers = <<0>>
    /\ matches # <<>> \/ csv_files.matches.headers # <<>> =>
           csv_files.matches.headers = <<0>>

\* The records a batch is to store, in the order of its filename list.
RecordsOf(form) ==
    [i \in 1..Len(ValidEntries(form)) |->
        [email |-> form.email, filename |-> ValidEntries(form)[i],
         score |-> ValueOf(form.scores[ValidEntries(form)[i]]),
         remark |-> <<>>]]

\* The rows of the store that carry the email, in file order.
RowsOf(email) == SelectSeq(ratings, LAMBDA row : row.email = email)

\* Both requests have been answered.
BothDone == \A c \in Clients : pending[c].pc = "done"

\* C30: when two batch rating POSTs are handled concurrently, no rating is
\* lost: once both are answered the store holds every valid record of both
\* batches exactly once, the records of each batch in the order of its
\* filename list, and each request has reported its own count.
C30_NoRatingLost ==
    DOMAIN pending = Clients /\ BothDone =>
        /\ \A c \in Clients :
               /\ RowsOf(pending[c].form.email) = RecordsOf(pending[c].form)
               /\ pending[c].form.filenames # <<>> =>
                      pending[c].resp =
                          IF RecordsOf(pending[c].form) = <<>>
                          THEN [status |-> 302, location |-> "rate",
                                email |-> pending[c].form.email,
                                error |-> "no_ratings"]
                          ELSE [status |-> 200, page |-> "thanks",
                                user_email |-> pending[c].form.email,
                                submitted_count |-> Len(RecordsOf(pending[c].form))]
        /\ Len(ratings) = Len(RecordsOf(pending[1].form)) + Len(RecordsOf(pending[2].form))

\* Both batches are answered and their rows alternate in the store: a row
\* of a, a row of b, a row of a.
C30_Witness ==
    /\ DOMAIN pending = Clients /\ BothDone
    /\ Len(ratings) >= 3
    /\ ratings[1].email = <<"a">> /\ ratings[2].email = <<"b">>
    /\ ratings[3].email = <<"a">>
    /\ pending[1].resp.submitted_count = 2

-----------------------------------------------------------------------------
(* The stores across the operations of the application.                    *)

\* Every kind of request of the application, from the empty installation,
\* by one rater.
NextStores ==
    \/ /\ RowsFree >= 1
       /\ UploadPost({PASSWORD, "guess"}, {ScoreA, ScoreB}, {<<>>}, {<<"B">>}, {<<>>})
    \/ RateBatchPost({<<"a">>}, {TrackA}, {<<"7">>, <<"x">>}, {<<>>}, RowsFree)
    \/ /\ RowsFree >= 1
       /\ RateSinglePost({<<"a">>}, {TrackB}, {<<"7">>}, {<<>>})
    \/ RatePage({<<"a">>}, {"filename"}, {<<>>}, {<<>>}, {<<>>}, {""})
    \/ ArenaVisit({<<"a">>}, {""}, {""})
    \/ /\ RowsFree >= 1
       /\ ArenaSubmit({<<"a">>}, {"composer_only::B"}, {"B"}, {TrackA, TrackB},
                      {<<>>}, {<<"A">>}, {<<>>}, {"same"})

SpecStores == Init /\ [][NextStores]_vars

\* The first sequence is the beginning of the second.
IsPrefixOf(before, after) ==
    /\ Len(before) <= Len(after)
    /\ SubSeq(after, 1, Len(before)) = before

\* C21: the three stores are append-only: across every operation (upload,
\* rating POST, arena POST, any GET) the records of the rating, metadata
\* and arena match store before the operation are a prefix of the records
\* after it.
C21_AppendOnly ==
    [][/\ IsPrefixOf(ratings, ratings')
       /\ IsPrefixOf(metadata, metadata')
       /\ IsPrefixOf(matches, matches')]_vars

\* A rating POST has added a second, different row to the rating store
\* while the metadata store holds a record.
C21_Witness ==
    /\ req.op = "rate_post"
    /\ Len(ratings) >= 2
    /\ ratings[Len(ratings)] # ratings[1]
    /\ metadata # <<>>

\* C29: each handler writes only its own store.  A GET of /rate or /arena
\* changes no store and no track; a rating POST changes only the rating
\* store; an arena POST changes only the arena match store; an upload
\* changes only the uploads directory and the metadata store, and every
\* file of the directory before the upload is in it afterwards.
C29_HandlersWriteOwnStore ==
    [][/\ req'.op \in {"rate_get", "arena_get"} =>
              UNCHANGED <<uploads, metadata, ratings, matches, csv_files>>
       /\ req'.op = "rate_post" =>
              /\ UNCHANGED <<uploads, metadata, matches>>
              /\ csv_files'.metadata = csv_files.metadata
              /\ csv_files'.matches = csv_files.matches
       /\ req'.op = "arena_post" =>
              /\ UNCHANGED <<uploads, metadata, ratings>>
              /\ csv_files'.metadata = csv_files.metadata
              /\ csv_files'.ratings = csv_files.ratings
       /\ req'.op = "upload" =>
              /\ UNCHANGED <<ratings, matches>>
              /\ uploads \subseteq uploads'
              /\ csv_files'.ratings = csv_files.ratings
              /\ csv_files'.matches = csv_files.matches]_vars

\* An upload has been handled while the rating store held a row, and both
\* tracks are in the directory with their metadata records.
C29_Witness ==
    /\ req.op = "upload"
    /\ {TrackA, TrackB} \subseteq uploads
    /\ ratings # <<>>
    /\ Len(metadata) = 2

=============================================================================
